---- MODULE Spec2Model ----
(***************************************************************************)
(* A model of src/app.py: the NLPChatBot of the "NLP ContextBot Pro"       *)
(* Streamlit script.  Python strings are TLA+ strings (TLC evaluates Len,  *)
(* \o and SubSeq on them), so lower(), tokenisation and the substring      *)
(* test `x in s` are computed character by character.                      *)
(*                                                                         *)
(* SANY reads ASCII only.  Every emoji of the source is a single code      *)
(* point that is neither a word character nor white space; it is written   *)
(* here as one ASCII symbol with the same two properties:                  *)
(*   bank/financial "$"   bank/river "~"   bat/sports "|"   bat/animal "^" *)
(*   book/reading "#"     book/reserve "@" play/theater "*" play/games "&" *)
(*   books reply "%"      heart "+"        sparkles "="     thinking "?"   *)
(***************************************************************************)
EXTENDS Integers, Sequences, FiniteSets, TLC

VARIABLES
    special_cases,     \* bot.special_cases, the sense inventory (app.py 84-125)
    user_input,        \* the text of the st.text_input box (app.py 319)
    lastop,            \* the bot method that ran last on user_input
    corrected,         \* process_input's first result
    tags,              \* process_input's second result
    senses,            \* process_input's third result, an insertion-ordered dict
    response,          \* generate_response's result
    call_word,         \* the word of the last direct disambiguate_word call
    call_result,       \* its outcome
    prev_result,       \* the outcome of the call before it, when it had the same arguments
    th_pc,             \* per thread: the place inside disambiguate_word
    th_word,           \* per thread: argument word
    th_context,        \* per thread: argument context
    th_word_lower,     \* per thread: local word_lower
    th_context_words,  \* per thread: local context_words
    th_i,              \* per thread: position of the loop over the senses
    th_result          \* per thread: the value returned

seqvars == <<user_input, lastop, corrected, tags, senses, response,
             call_word, call_result, prev_result>>
thvars == <<th_pc, th_word, th_context, th_word_lower, th_context_words,
            th_i, th_result>>
vars == <<special_cases, seqvars, thvars>>

(***************************************************************************)
(* Bounds of the model.                                                    *)
(***************************************************************************)
MaxTokens == 3       \* words typed into the input box before process_input
MaxCtxTokens == 2    \* words of the context of a direct disambiguate_word call
NumThreads == 2      \* threads calling disambiguate_word on the one module-level bot

(***************************************************************************)
(* Python values.                                                          *)
(***************************************************************************)
None == "<None>"

Truthy(v) == v # None /\ v # ""

Returned(v) == [raised |-> FALSE, value |-> v]

Raised(e) == [raised |-> TRUE, value |-> e]

(***************************************************************************)
(* str operations.                                                         *)
(***************************************************************************)
UpperCase == "ABCDEFGHIJKLMNOPQRSTUVWXYZ"

LowerCase == "abcdefghijklmnopqrstuvwxyz"

Char(s, i) == SubSeq(s, i, i)

UpperLetters == {Char(UpperCase, i) : i \in 1..Len(UpperCase)}

LowerLetters == {Char(LowerCase, i) : i \in 1..Len(LowerCase)}

\* the lower-case letter of each upper-case letter
LowerOf ==
    [c \in UpperLetters |->
        Char(LowerCase, CHOOSE i \in 1..Len(UpperCase) : Char(UpperCase, i) = c)]

IsUpper(c) == c \in UpperLetters

IsLowerLetter(c) == c \in LowerLetters

LowerChar(c) == IF IsUpper(c) THEN LowerOf[c] ELSE c

RECURSIVE Lower(_)
Lower(s) ==
    IF Len(s) = 0 THEN ""
    ELSE LowerChar(Char(s, 1)) \o Lower(SubSeq(s, 2, Len(s)))

\* Python's `needle in s` on two strings
Contains(s, needle) ==
    \E i \in 1..(Len(s) - Len(needle) + 1) : SubSeq(s, i, i + Len(needle) - 1) = needle

StartsWith(s, prefix) ==
    Len(s) >= Len(prefix) /\ SubSeq(s, 1, Len(prefix)) = prefix

EndsWith(s, suffix) ==
    Len(s) >= Len(suffix) /\ SubSeq(s, Len(s) - Len(suffix) + 1, Len(s)) = suffix

RECURSIVE Join(_)
Join(toks) ==
    IF Len(toks) = 0 THEN ""
    ELSE IF Len(toks) = 1 THEN toks[1]
    ELSE toks[1] \o " " \o Join(Tail(toks))

SeqToSet(q) == {q[i] : i \in 1..Len(q)}

(***************************************************************************)
(* tokenize (app.py 135-141).  On text made of letters, blanks and         *)
(* symbols, nltk.word_tokenize and the fallback r"\w+(?:'\w+)?|\S" agree:  *)
(* a maximal run of word characters is a token and every other non-blank   *)
(* character is a token of its own.                                        *)
(***************************************************************************)
IsWordChar(c) == IsUpper(c) \/ IsLowerLetter(c)

RECURSIVE TokenizeFrom(_, _, _, _)
TokenizeFrom(s, i, cur, acc) ==
    IF i > Len(s)
    THEN IF cur = "" THEN acc ELSE Append(acc, cur)
    ELSE LET c == Char(s, i)
             acc1 == IF cur = "" THEN acc ELSE Append(acc, cur)
         IN  IF IsWordChar(c) THEN TokenizeFrom(s, i + 1, cur \o c, acc)
             ELSE IF c = " " THEN TokenizeFrom(s, i + 1, "", acc1)
             ELSE TokenizeFrom(s, i + 1, "", Append(acc1, c))

Tokenize(text) == TokenizeFrom(text, 1, "", <<>>)

\* set(w.lower() for w in self.tokenize(context))
ContextWords(context) ==
    LET toks == Tokenize(context) IN {Lower(toks[i]) : i \in 1..Len(toks)}

(***************************************************************************)
(* self.special_cases (app.py 84-125): a dict of dicts, both iterated in   *)
(* insertion order, written as sequences.                                  *)
(***************************************************************************)
SpecialCases == <<
    [word |-> "bank", senses |-> <<
        [name |-> "financial",
         triggers |-> <<"money", "account", "loan", "deposit", "cash", "withdraw">>,
         definition |-> "$ Financial institution that handles money transactions"],
        [name |-> "river",
         triggers |-> <<"water", "fish", "stream", "shore", "river", "boat">>,
         definition |-> "~ Sloping land beside a body of water"] >>],
    [word |-> "bat", senses |-> <<
        [name |-> "sports",
         triggers |-> <<"baseball", "cricket", "hit", "game", "play", "sport">>,
         definition |-> "| Club used in sports like baseball or cricket"],
        [name |-> "animal",
         triggers |-> <<"fly", "wing", "mammal", "cave", "flying", "nocturnal">>,
         definition |-> "^ Nocturnal flying mammal with wings"] >>],
    [word |-> "book", senses |-> <<
        [name |-> "reading",
         triggers |-> <<"read", "novel", "author", "page", "chapter", "library">>,
         definition |-> "# Written or printed work consisting of pages"],
        [name |-> "reserve",
         triggers |-> <<"reservation", "ticket", "appointment", "schedule", "table">>,
         definition |-> "@ To arrange something in advance"] >>],
    [word |-> "play", senses |-> <<
        [name |-> "theater",
         triggers |-> <<"actor", "stage", "drama", "theater", "performance">>,
         definition |-> "* Dramatic work performed on stage"],
        [name |-> "games",
         triggers |-> <<"game", "sports", "children", "fun", "toy">>,
         definition |-> "& Engage in activity for enjoyment"] >> ] >>

\* `key in self.special_cases`
HasKey(sc, key) == \E i \in 1..Len(sc) : sc[i].word = key

\* self.special_cases[key]
SensesOf(sc, key) == sc[CHOOSE i \in 1..Len(sc) : sc[i].word = key].senses

\* any(trigger in context_words for trigger in sense_data["triggers"])
AnyTrigger(sense_data, context_words) ==
    \E j \in 1..Len(sense_data.triggers) : sense_data.triggers[j] \in context_words

Min(S) == CHOOSE x \in S : \A y \in S : x <= y

Max(S) == CHOOSE x \in S : \A y \in S : x >= y

(***************************************************************************)
(* pos_tag (app.py 143-162).  nltk.pos_tag is an external tagger: inside   *)
(* disambiguate_word, where only the first letter of the tag is read, it   *)
(* may answer a tag of any of the five classes; for process_input's tags a *)
(* small lexicon stands for it.  The except branch is the suffix tagger.   *)
(***************************************************************************)
TreebankTags == {"NN", "VBD", "JJ", "RB", "IN"}

PosTagFallback(token) ==
    LET lower_token == Lower(token)
    IN  IF EndsWith(lower_token, "ing") THEN "VBG"
        ELSE IF EndsWith(lower_token, "ed") THEN "VBD"
        ELSE IF EndsWith(lower_token, "ly") THEN "RB"
        ELSE IF EndsWith(lower_token, "s") THEN "NNS"
        ELSE "NN"

NltkPosTag(token) ==
    IF Lower(token) \in {"love", "read", "play"} THEN "VB"
    ELSE IF IsUpper(Char(token, 1)) THEN "NNP"
    ELSE IF EndsWith(Lower(token), "s") THEN "NNS"
    ELSE "NN"

PosTagOne(token, nltk_ok) ==
    IF nltk_ok THEN NltkPosTag(token) ELSE PosTagFallback(token)

\* self.pos_tag(tokens): a list of (token, tag) pairs
PosTag(tokens, nltk_ok) ==
    [i \in 1..Len(tokens) |-> <<tokens[i], PosTagOne(tokens[i], nltk_ok)>>]

\* every tag self.pos_tag([word]) may give for one word
PosTagOutcomes(word) == TreebankTags \cup {PosTagFallback(word)}

(***************************************************************************)
(* get_wordnet_pos (app.py 200-210) and the WordNet lookup (app.py         *)
(* 224-233).  No statement of app.py binds the name wn (the imports are    *)
(* lines 1-7), so evaluating wn.ADJ, wn.VERB, wn.NOUN, wn.ADV or           *)
(* wn.synsets raises NameError.                                            *)
(***************************************************************************)
GetWordnetPos(treebank_tag) ==
    IF StartsWith(treebank_tag, "J") THEN Raised("NameError")
    ELSE IF StartsWith(treebank_tag, "V") THEN Raised("NameError")
    ELSE IF StartsWith(treebank_tag, "N") THEN Raised("NameError")
    ELSE IF StartsWith(treebank_tag, "R") THEN Raised("NameError")
    ELSE Returned(None)

\* the body of the try block: tags[0][1], get_wordnet_pos, wn.synsets
WordNetLookup(word, tag) ==
    LET wn_pos == GetWordnetPos(tag)
    IN  IF wn_pos.raised THEN wn_pos ELSE Raised("NameError")

\* a variant without the try/except: the exception leaves the call
TryWordNetNoExcept(word, tag) == WordNetLookup(word, tag)

\* try: ... except: pass, then `return None` (app.py 224-235)
TryWordNet(word, tag) ==
    LET r == WordNetLookup(word, tag)
    IN  IF r.raised THEN Returned(None) ELSE r

(***************************************************************************)
(* disambiguate_word (app.py 212-235).                                     *)
(***************************************************************************)
\* a variant in which a later sense with a trigger overrides an earlier one
LastTriggered(sense_list, context_words) ==
    LET hits == {i \in 1..Len(sense_list) : AnyTrigger(sense_list[i], context_words)}
    IN  IF hits = {} THEN None ELSE sense_list[Max(hits)].definition

\* the loop of lines 219-221: the definition of the first sense, in
\* insertion order, one of whose triggers is a context word
FirstTriggered(sense_list, context_words) ==
    LET hits == {i \in 1..Len(sense_list) : AnyTrigger(sense_list[i], context_words)}
    IN  IF hits = {} THEN None ELSE sense_list[Min(hits)].definition

\* lines 217-221
CheckSpecialCases(sc, word_lower, context_words) ==
    IF HasKey(sc, word_lower)
    THEN FirstTriggered(SensesOf(sc, word_lower), context_words)
    ELSE None

(***************************************************************************)
(* The overlap count of spec.md 4.2 step 4: the size of the intersection   *)
(* of the context's token set with the tokenised, lower-cased definition   *)
(* of a sense.  StrictBest is the set (empty or a singleton) of the senses *)
(* whose count is strictly greater than every other sense's.               *)
(***************************************************************************)
SignatureTerms(sense_data) == ContextWords(sense_data.definition)

Overlap(sense_data, context_words) ==
    Cardinality(context_words \cap SignatureTerms(sense_data))

StrictBest(sense_list, context_words) ==
    {i \in 1..Len(sense_list) :
        \A j \in 1..Len(sense_list) :
            j # i => Overlap(sense_list[i], context_words)
                        > Overlap(sense_list[j], context_words)}

\* a variant that ends with the default of spec.md 4.2 step 5
DisambiguateWordDefault(sc, word, context, tag) ==
    LET word_lower == Lower(word)
        context_words == ContextWords(context)
        special == CheckSpecialCases(sc, word_lower, context_words)
    IN  IF special # None THEN Returned(special)
        ELSE IF HasKey(sc, word_lower)
        THEN Returned(SensesOf(sc, word_lower)[1].definition)
        ELSE TryWordNet(word, tag)

\* a variant with the overlap scoring of spec.md 4.2 step 4
DisambiguateWordLesk(sc, word, context, tag) ==
    LET word_lower == Lower(word)
        context_words == ContextWords(context)
        special == CheckSpecialCases(sc, word_lower, context_words)
    IN  IF special # None THEN Returned(special)
        ELSE IF HasKey(sc, word_lower)
                /\ StrictBest(SensesOf(sc, word_lower), context_words) # {}
        THEN Returned(SensesOf(sc, word_lower)[
                 CHOOSE i \in StrictBest(SensesOf(sc, word_lower), context_words) : TRUE
             ].definition)
        ELSE TryWordNet(word, tag)

\* a variant that looks the word up as it was written
DisambiguateWordCaseSensitive(sc, word, context, tag) ==
    LET context_words == ContextWords(context)
        special == CheckSpecialCases(sc, word, context_words)
    IN  IF special # None THEN Returned(special) ELSE TryWordNet(word, tag)

DisambiguateWord(sc, word, context, tag) ==
    LET word_lower == Lower(word)
        context_words == ContextWords(context)
        special == CheckSpecialCases(sc, word_lower, context_words)
    IN  IF special # None THEN Returned(special) ELSE TryWordNet(word, tag)

(***************************************************************************)
(* correct_spelling (app.py 164-198).  SpellChecker is an external         *)
(* library: EnglishWords stands for the part of its dictionary the typed   *)
(* words meet, SpellCandidates for its candidates().  __init__ adds the    *)
(* inventory's words and triggers (app.py 128-133).                        *)
(***************************************************************************)
EnglishWords == {"love", "zebra", "i", "the"}

\* domain_words of __init__, loaded into self.spell once, at construction
DomainWords ==
    UNION { {SpecialCases[i].word}
            \cup UNION { SeqToSet(SpecialCases[i].senses[k].triggers)
                         : k \in 1..Len(SpecialCases[i].senses) }
            : i \in 1..Len(SpecialCases) }

SpellDictionary == EnglishWords \cup DomainWords

SpellCandidates(word) == IF Lower(word) = "bnak" THEN {"bank"} ELSE {}

SuggestionScore(suggestion, context_words) ==
    (IF suggestion \in SpellDictionary THEN 2 ELSE 0)
    + (IF suggestion \in context_words THEN 1 ELSE 0)

GetContextualSuggestion(word, context) ==
    LET suggestions == SpellCandidates(word)
        context_words == ContextWords(context)
        best == {s \in suggestions :
                    \A t \in suggestions :
                        SuggestionScore(s, context_words)
                            >= SuggestionScore(t, context_words)}
    IN  IF suggestions = {} THEN None ELSE CHOOSE s \in best : TRUE

CorrectWord(word, context) ==
    IF Lower(word) \notin SpellDictionary
    THEN LET suggestion == GetContextualSuggestion(word, context)
         IN  IF Truthy(suggestion) THEN suggestion ELSE word
    ELSE word

CorrectSpelling(text) ==
    LET tokens == Tokenize(text)
    IN  Join([i \in 1..Len(tokens) |-> CorrectWord(tokens[i], Join(tokens))])

(***************************************************************************)
(* A Python dict: a sequence of <<key, value>> in insertion order.         *)
(***************************************************************************)
DictHas(d, key) == \E i \in 1..Len(d) : d[i][1] = key

DictGet(d, key) == d[CHOOSE i \in 1..Len(d) : d[i][1] = key][2]

DictSet(d, key, value) ==
    IF DictHas(d, key)
    THEN [i \in 1..Len(d) |-> IF d[i][1] = key THEN <<key, value>> ELSE d[i]]
    ELSE Append(d, <<key, value>>)

DictKeys(d) == [i \in 1..Len(d) |-> d[i][1]]

(***************************************************************************)
(* process_input (app.py 237-253).                                         *)
(***************************************************************************)
\* a variant that records a sense only while no other word has one
RecordSenseFirstOnly(d, word, definition) ==
    IF Truthy(definition) /\ (Len(d) = 0 \/ DictHas(d, word))
    THEN DictSet(d, word, definition)
    ELSE d

\* lines 247-248: if definition: senses[word] = definition
RecordSense(d, word, definition) ==
    IF Truthy(definition) THEN DictSet(d, word, definition) ELSE d

\* the loop of lines 245-248 over `tagged` from position k on; an exception
\* of disambiguate_word leaves the loop
RECURSIVE ResolveAll(_, _, _, _, _, _)
ResolveAll(sc, tagged, context, nltk_ok, k, d) ==
    IF k > Len(tagged) THEN Returned(d)
    ELSE LET word == tagged[k][1]
             r == DisambiguateWord(sc, word, context, PosTagOne(word, nltk_ok))
         IN  IF r.raised THEN r
             ELSE ResolveAll(sc, tagged, context, nltk_ok, k + 1,
                             RecordSense(d, word, r.value))

ProcessInputResult(sc, text, nltk_ok) ==
    LET corrected_text == CorrectSpelling(text)
        tokens == Tokenize(corrected_text)
        tagged == PosTag(tokens, nltk_ok)
        r == ResolveAll(sc, tagged, corrected_text, nltk_ok, 1, <<>>)
    IN  IF r.raised
        THEN [corrected |-> text, tags |-> <<>>, senses |-> <<>>]
        ELSE [corrected |-> corrected_text, tags |-> tagged, senses |-> r.value]

(***************************************************************************)
(* generate_response (app.py 255-289).                                     *)
(***************************************************************************)
ReplySports == "| Are you talking about baseball or cricket?"
ReplyAnimal == "^ Interesting! Did you know bats use echolocation to navigate?"
ReplyBanking ==
    "$ Talking about banking services? I can discuss loans, savings, or investments."
ReplyRiver == "~ Riverbanks are important ecosystems for many species!"
ReplyReading ==
    "% Reading books expands our knowledge and imagination. What's your favorite genre?"
ReplyReserve == "@ Need help making a reservation? I can assist with scheduling!"
ReplyTheater == "* Shakespeare wrote some of the most famous plays in history!"
ReplyGames == "& Playing games is great for relaxation and skill development."
ReplyLove == "+ Love is one of humanity's most powerful emotions. Tell me more!"
ReplyThanks == "? Thanks for sharing! What would you like to talk about next?"
ReplyDiscuss(w) == "= Interesting! Let's discuss " \o w \o " more."

\* lines 284-285
InterestingWords(d) ==
    SelectSeq(DictKeys(d), LAMBDA w : Lower(w) \notin {"i", "you", "the", "a", "is", "are"})

GenerateResponse(corrected_text, d) ==
    LET lowered == Lower(corrected_text)
    IN  IF DictHas(d, "bat")
        THEN IF Contains(DictGet(d, "bat"), "sports") THEN ReplySports ELSE ReplyAnimal
        ELSE IF DictHas(d, "bank")
        THEN IF Contains(DictGet(d, "bank"), "financial") THEN ReplyBanking ELSE ReplyRiver
        ELSE IF DictHas(d, "book")
        THEN IF Contains(DictGet(d, "book"), "reading") THEN ReplyReading ELSE ReplyReserve
        ELSE IF DictHas(d, "play")
        THEN IF Contains(DictGet(d, "play"), "theater") THEN ReplyTheater ELSE ReplyGames
        ELSE IF Contains(lowered, "love") THEN ReplyLove
        ELSE IF Len(InterestingWords(d)) > 0 THEN ReplyDiscuss(InterestingWords(d)[1])
        ELSE ReplyThanks

(***************************************************************************)
(* The session: the user types into the input box, the script calls        *)
(* bot.process_input and bot.generate_response (app.py 319-333).           *)
(***************************************************************************)
InputWords == {"bank", "Bank", "bat", "play", "money", "water", "sports",
               "love", "bnak"}

\* the words and the context words of the direct disambiguate_word calls
CallWords == {"bank", "Bank", "BANK", "bat", "book", "play", "zebra"}

CtxWords == {"money", "MONEY", "water", "cave", "play", "read", "ticket",
             "stage", "sports", "love"}

\* the arguments of the interleaved calls
ConcWords == {"Bank", "play", "zebra"}

ConcContexts == {"water money", "MONEY stage", "love"}

NoResult == Returned("<no call>")

Threads == 1..NumThreads

Init ==
    /\ special_cases = SpecialCases
    /\ user_input = ""
    /\ lastop = "none"
    /\ corrected = ""
    /\ tags = <<>>
    /\ senses = <<>>
    /\ response = ""
    /\ call_word = ""
    /\ call_result = NoResult
    /\ prev_result = NoResult
    /\ th_pc = [t \in Threads |-> "idle"]
    /\ th_word = [t \in Threads |-> ""]
    /\ th_context = [t \in Threads |-> ""]
    /\ th_word_lower = [t \in Threads |-> ""]
    /\ th_context_words = [t \in Threads |-> {}]
    /\ th_i = [t \in Threads |-> 0]
    /\ th_result = [t \in Threads |-> None]

\* one more word typed into st.text_input
TypeWord ==
    /\ lastop = "none"
    /\ Len(Tokenize(user_input)) < MaxTokens
    /\ \E w \in InputWords :
          user_input' = (IF user_input = "" THEN w ELSE user_input \o " " \o w)
    /\ UNCHANGED <<special_cases, lastop, corrected, tags, senses, response,
                   call_word, call_result, prev_result, thvars>>

\* corrected, pos_tags, senses = bot.process_input(user_input)   (app.py 331)
ProcessInput ==
    /\ lastop = "none"
    /\ user_input # ""
    /\ \E nltk_ok \in BOOLEAN :
          LET r == ProcessInputResult(special_cases, user_input, nltk_ok)
          IN  /\ corrected' = r.corrected
              /\ tags' = r.tags
              /\ senses' = r.senses
    /\ lastop' = "process_input"
    /\ response' = ""
    /\ call_word' = ""
    /\ call_result' = NoResult
    /\ prev_result' = NoResult
    /\ UNCHANGED <<special_cases, user_input, thvars>>

\* response = bot.generate_response(corrected, senses)   (app.py 332)
GenerateResponseStep ==
    /\ lastop = "process_input"
    /\ response' = GenerateResponse(corrected, senses)
    /\ lastop' = "generate_response"
    /\ UNCHANGED <<special_cases, user_input, corrected, tags, senses,
                   call_word, call_result, prev_result, thvars>>

\* the next rerun of the script starts from an empty box
Clear ==
    /\ lastop # "none"
    /\ user_input' = ""
    /\ lastop' = "none"
    /\ corrected' = ""
    /\ tags' = <<>>
    /\ senses' = <<>>
    /\ response' = ""
    /\ call_word' = ""
    /\ call_result' = NoResult
    /\ prev_result' = NoResult
    /\ UNCHANGED <<special_cases, thvars>>

Next == TypeWord \/ ProcessInput \/ GenerateResponseStep \/ Clear

Spec == Init /\ [][Next]_vars

(***************************************************************************)
(* Direct calls of bot.disambiguate_word(word, context), one after the     *)
(* other on the one bot, the context being the text of the input box.      *)
(***************************************************************************)
TypeContext ==
    /\ lastop = "none"
    /\ Len(Tokenize(user_input)) < MaxCtxTokens
    /\ \E w \in CtxWords :
          user_input' = (IF user_input = "" THEN w ELSE user_input \o " " \o w)
    /\ UNCHANGED <<special_cases, lastop, corrected, tags, senses, response,
                   call_word, call_result, prev_result, thvars>>

\* a variant of the call that promotes the sense it matched to the front of
\* the word's entry
PromoteMatched(sc, word, context) ==
    LET word_lower == Lower(word)
        context_words == ContextWords(context)
    IN  [i \in 1..Len(sc) |->
            IF sc[i].word = word_lower
            THEN LET sl == sc[i].senses
                     hits == {k \in 1..Len(sl) : AnyTrigger(sl[k], context_words)}
                 IN  IF hits = {} THEN sc[i]
                     ELSE [sc[i] EXCEPT !.senses =
                             <<sl[Max(hits)]>>
                             \o SelectSeq(sl, LAMBDA x : x # sl[Max(hits)])]
            ELSE sc[i]]

DisambiguateWordCallPromoting ==
    /\ lastop \in {"none", "process_input"}
    /\ \E word \in CallWords :
          \E tag \in PosTagOutcomes(word) :
             /\ call_word' = word
             /\ call_result' = DisambiguateWord(special_cases, word, user_input, tag)
             /\ special_cases' = PromoteMatched(special_cases, word, user_input)
    /\ prev_result' = NoResult
    /\ lastop' = "disambiguate_word"
    /\ corrected' = ""
    /\ tags' = <<>>
    /\ senses' = <<>>
    /\ response' = ""
    /\ UNCHANGED <<user_input, thvars>>

\* bot.disambiguate_word(word, user_input): no statement of lines 212-235
\* assigns to self or to what it holds
DisambiguateWordCall ==
    /\ lastop \in {"none", "process_input"}
    /\ \E word \in CallWords :
          \E tag \in PosTagOutcomes(word) :
             /\ call_word' = word
             /\ call_result' = DisambiguateWord(special_cases, word, user_input, tag)
    /\ prev_result' = NoResult
    /\ lastop' = "disambiguate_word"
    /\ corrected' = ""
    /\ tags' = <<>>
    /\ senses' = <<>>
    /\ response' = ""
    /\ UNCHANGED <<special_cases, user_input, thvars>>

\* the same call once more, with the same word and context
RepeatCall ==
    /\ lastop = "disambiguate_word"
    /\ \E tag \in PosTagOutcomes(call_word) :
          call_result' = DisambiguateWord(special_cases, call_word, user_input, tag)
    /\ prev_result' = call_result
    /\ UNCHANGED <<special_cases, user_input, lastop, corrected, tags, senses,
                   response, call_word, thvars>>

NextCall ==
    TypeContext \/ DisambiguateWordCall \/ RepeatCall \/ ProcessInput \/ Clear

SpecCall == Init /\ [][NextCall]_vars

(***************************************************************************)
(* disambiguate_word called from several threads on the module-level bot   *)
(* (app.py 291-292), one step per statement.  word_lower, context_words    *)
(* and the loop variables are locals of each call.                         *)
(***************************************************************************)
\* a variant that keeps context_words in an attribute of the shared bot
ThBeginShared(t) ==
    /\ th_pc[t] = "idle"
    /\ \E word \in ConcWords, context \in ConcContexts :
          /\ th_word' = [th_word EXCEPT ![t] = word]
          /\ th_context' = [th_context EXCEPT ![t] = context]
          /\ th_word_lower' = [th_word_lower EXCEPT ![t] = Lower(word)]
          /\ th_context_words' = [u \in Threads |-> ContextWords(context)]
    /\ th_i' = [th_i EXCEPT ![t] = 1]
    /\ th_pc' = [th_pc EXCEPT ![t] = "special"]
    /\ UNCHANGED <<special_cases, seqvars, th_result>>

\* lines 214-215
ThBegin(t) ==
    /\ th_pc[t] = "idle"
    /\ \E word \in ConcWords, context \in ConcContexts :
          /\ th_word' = [th_word EXCEPT ![t] = word]
          /\ th_context' = [th_context EXCEPT ![t] = context]
          /\ th_word_lower' = [th_word_lower EXCEPT ![t] = Lower(word)]
          /\ th_context_words' = [th_context_words EXCEPT ![t] = ContextWords(context)]
    /\ th_i' = [th_i EXCEPT ![t] = 1]
    /\ th_pc' = [th_pc EXCEPT ![t] = "special"]
    /\ UNCHANGED <<special_cases, seqvars, th_result>>

\* lines 218-221: one turn of the loop over the senses of the word
ThSpecial(t) ==
    /\ th_pc[t] = "special"
    /\ IF ~HasKey(special_cases, th_word_lower[t])
          \/ th_i[t] > Len(SensesOf(special_cases, th_word_lower[t]))
       THEN /\ th_pc' = [th_pc EXCEPT ![t] = "wordnet"]
            /\ UNCHANGED <<th_i, th_result>>
       ELSE LET sense_data == SensesOf(special_cases, th_word_lower[t])[th_i[t]]
            IN  IF AnyTrigger(sense_data, th_context_words[t])
                THEN /\ th_result' = [th_result EXCEPT ![t] = sense_data.definition]
                     /\ th_pc' = [th_pc EXCEPT ![t] = "returned"]
                     /\ UNCHANGED th_i
                ELSE /\ th_i' = [th_i EXCEPT ![t] = th_i[t] + 1]
                     /\ UNCHANGED <<th_pc, th_result>>
    /\ UNCHANGED <<special_cases, seqvars, th_word, th_context, th_word_lower,
                   th_context_words>>

\* lines 224-235
ThWordNet(t) ==
    /\ th_pc[t] = "wordnet"
    /\ \E tag \in PosTagOutcomes(th_word[t]) :
          th_result' = [th_result EXCEPT ![t] = TryWordNet(th_word[t], tag).value]
    /\ th_pc' = [th_pc EXCEPT ![t] = "returned"]
    /\ UNCHANGED <<special_cases, seqvars, th_word, th_context, th_word_lower,
                   th_context_words, th_i>>

\* the caller takes the value; the frame and its locals are gone
ThReturn(t) ==
    /\ th_pc[t] = "returned"
    /\ th_pc' = [th_pc EXCEPT ![t] = "idle"]
    /\ th_word' = [th_word EXCEPT ![t] = ""]
    /\ th_context' = [th_context EXCEPT ![t] = ""]
    /\ th_word_lower' = [th_word_lower EXCEPT ![t] = ""]
    /\ th_context_words' = [th_context_words EXCEPT ![t] = {}]
    /\ th_i' = [th_i EXCEPT ![t] = 0]
    /\ th_result' = [th_result EXCEPT ![t] = None]
    /\ UNCHANGED <<special_cases, seqvars>>

NextConc ==
    \E t \in Threads : ThBegin(t) \/ ThSpecial(t) \/ ThWordNet(t) \/ ThReturn(t)

SpecConc == Init /\ [][NextConc]_vars

(***************************************************************************)
(* Properties.  In the states of SpecCall with lastop = "disambiguate_word" *)
(* the call was disambiguate_word(call_word, user_input) and call_result   *)
(* is its outcome.                                                         *)
(***************************************************************************)
Called == lastop = "disambiguate_word"

CallKey == Lower(call_word)

InInventory == HasKey(SpecialCases, CallKey)

CallSenses == SensesOf(SpecialCases, CallKey)

\* sense i of the word has one of its triggers among the context's tokens
SenseHit(i) ==
    LET toks == Tokenize(user_input)
    IN  \E k \in 1..Len(toks) :
            \E j \in 1..Len(CallSenses[i].triggers) :
                Lower(toks[k]) = CallSenses[i].triggers[j]

NoSenseHit == \A i \in 1..Len(CallSenses) : ~SenseHit(i)

CallBest == StrictBest(CallSenses, ContextWords(user_input))

\* C1: when a trigger of some sense of an inventory word occurs in the
\* context, the call returns the definition of the first sense, in inventory
\* order, that has a trigger in the context, also when a later sense has one.
C1_FirstSenseWithTriggerWins ==
    (Called /\ InInventory) =>
        \A i \in 1..Len(CallSenses) :
            (SenseHit(i) /\ \A j \in 1..(i - 1) : ~SenseHit(j))
                => call_result = Returned(CallSenses[i].definition)

C1_Witness ==
    /\ Called
    /\ InInventory
    /\ SenseHit(1)
    /\ SenseHit(2)
    /\ call_result = Returned(CallSenses[1].definition)

C4_UnknownWordReturnsNone ==
    (Called /\ ~InInventory) => call_result = Returned(None)

C4_Witness ==
    /\ Called
    /\ call_word = "zebra"
    /\ Len(Tokenize(user_input)) = MaxCtxTokens
    /\ call_result = Returned(None)

\* C5: whatever calls came before, a call returns what the inventory as
\* constructed gives for its arguments, whichever tag the tagger answers; the
\* same call made once more returns the same; the inventory is the one
\* __init__ built.
C5_IdempotentNoHiddenState ==
    /\ Called =>
          \A tag \in PosTagOutcomes(call_word) :
              call_result = DisambiguateWord(SpecialCases, call_word, user_input, tag)
    /\ prev_result # NoResult => call_result = prev_result
    /\ special_cases = SpecialCases

C5_Witness ==
    /\ Called
    /\ prev_result # NoResult
    /\ Truthy(prev_result.value)
    /\ call_result = prev_result

\* C7: the call returns what it returns for the lower-cased word and the
\* lower-cased context, so the letter case of neither changes the sense.
C7_CaseInsensitive ==
    Called =>
        \A tag \in TreebankTags :
            call_result = DisambiguateWord(special_cases, Lower(call_word),
                                           Lower(user_input), tag)

C7_Witness ==
    /\ Called
    /\ call_word # Lower(call_word)
    /\ user_input # Lower(user_input)
    /\ SenseHit(1)
    /\ call_result = Returned(CallSenses[1].definition)

(***************************************************************************)
(* Properties of process_input and generate_response, in Spec.             *)
(***************************************************************************)
Orders(n) ==
    {p \in [1..n -> 1..n] : \A a, b \in 1..n : p[a] = p[b] => a = b}

\* a dict without its insertion order
AsMap(d) == SeqToSet(d)

\* the loop of process_input run over the tagged words in the order p
RECURSIVE ResolveInOrder(_, _, _, _)
ResolveInOrder(p, results, k, d) ==
    IF k > Len(results) THEN d
    ELSE ResolveInOrder(p, results, k + 1,
                        RecordSense(d, tags[p[k]][1], results[p[k]]))

\* C6: the senses process_input records are, word for word, those recorded
\* when the words of the sentence are resolved in any other order.
C6_OrderIndependent ==
    lastop = "process_input" =>
        LET n == Len(tags)
            results == [k \in 1..n |->
                          DisambiguateWord(special_cases, tags[k][1], corrected,
                                           tags[k][2]).value]
        IN  \A p \in Orders(n) :
                AsMap(ResolveInOrder(p, results, 1, <<>>)) = AsMap(senses)

C6_Witness ==
    /\ lastop = "process_input"
    /\ Len(senses) = 2
    /\ senses[1][2] # senses[2][2]

AmbiguousWords == <<"bat", "bank", "book", "play">>

FirstReply(w) ==
    CASE w = "bat" -> ReplySports
      [] w = "bank" -> ReplyBanking
      [] w = "book" -> ReplyReading
      [] w = "play" -> ReplyTheater

SecondReply(w) ==
    CASE w = "bat" -> ReplyAnimal
      [] w = "bank" -> ReplyRiver
      [] w = "book" -> ReplyReserve
      [] w = "play" -> ReplyGames

\* C9: the reply is keyed by the resolved sense: for the ambiguous word the
\* reply is about (the first of bat, bank, book, play in the senses map), the
\* reply is the first-sense reply exactly when the stored definition is that of
\* the word's first sense, and the second-sense reply exactly when it is that
\* of the second.
C9_ReplyKeyedBySense ==
    lastop = "generate_response" =>
        \A k \in 1..Len(AmbiguousWords) :
            LET w == AmbiguousWords[k]
            IN  (DictHas(senses, w)
                 /\ \A j \in 1..(k - 1) : ~DictHas(senses, AmbiguousWords[j]))
                => /\ (response = FirstReply(w))
                        <=> (DictGet(senses, w) = SensesOf(SpecialCases, w)[1].definition)
                   /\ (response = SecondReply(w))
                        <=> (DictGet(senses, w) = SensesOf(SpecialCases, w)[2].definition)

\* the sentence with its inventory words written in lower case
LowerInventoryWords(text) ==
    LET toks == Tokenize(text)
    IN  Join([i \in 1..Len(toks) |->
                IF HasKey(SpecialCases, Lower(toks[i])) THEN Lower(toks[i])
                ELSE toks[i]])

\* process_input followed by generate_response
Reply(text, nltk_ok) ==
    LET r == ProcessInputResult(special_cases, text, nltk_ok)
    IN  GenerateResponse(r.corrected, r.senses)

\* C10: when an inventory word of the sentence is resolved by a trigger, the
\* reply is the one the same sentence gets with that word in lower case.
C10_ReplyIgnoresCase ==
    (lastop = "generate_response" /\ Len(senses) > 0)
        => \A nltk_ok \in BOOLEAN :
               response = Reply(LowerInventoryWords(user_input), nltk_ok)

(***************************************************************************)
(* A property of the interleaved calls, in SpecConc.                       *)
(***************************************************************************)
\* C8: however the calls interleave, a call returns what it returns when run
\* alone on the inventory as constructed, and the inventory is never changed.
C8_ConcurrentCallsIndependent ==
    /\ \A t \in Threads :
          th_pc[t] = "returned" =>
              \A tag \in PosTagOutcomes(th_word[t]) :
                  th_result[t]
                      = DisambiguateWord(SpecialCases, th_word[t], th_context[t], tag).value
    /\ special_cases = SpecialCases

C8_Witness ==
    \E t, u \in Threads :
        /\ t # u
        /\ th_pc[t] = "returned"
        /\ Truthy(th_result[t])
        /\ th_pc[u] = "special"
        /\ th_i[u] = 2
        /\ th_context[u] # th_context[t]

====
